---- MODULE Spec2Model ----
(***************************************************************************)
(* Numeric evaluation builtins of Mathics (mathics/builtin/numeric.py):    *)
(* N, Precision, Round, Chop, NumericQ and Hash, modelled over a bounded   *)
(* universe of expression trees.                                           *)
(*                                                                         *)
(* Expressions are records tagged by the field k.  Numbers carry their     *)
(* value as the rational num/den scaled by 10^exp; floating point values   *)
(* are abstracted by these exact rationals.  An arbitrary-precision real   *)
(* carries its precision in bits, as PrecisionReal does.                   *)
(***************************************************************************)
EXTENDS Integers, Sequences, FiniteSets, TLC

VARIABLES
    attributes,   \* definitions store: head symbol -> set of attribute names
    nvalues,      \* definitions store: symbol -> its NValues rule (or NoRule)
    call,         \* the builtin call last evaluated: [op, expr, arg]
    result,       \* what its handler returned (NoneValue: call left unevaluated)
    prior,        \* N only: the result of the preceding N call on the same input
    messages,     \* messages the handler sent to evaluation.message
    fed           \* Hash only: the hash object received the expression's bytes

vars == <<attributes, nvalues, call, result, prior, messages, fed>>

----------------------------------------------------------------------------
(* Bounds of the model *)

\* largest number of leaves of a generated compound expression
MaxLeaves == 2

\* $RecursionLimit of the evaluator: nested evaluate() calls allowed
MaxRecursionDepth == 6

----------------------------------------------------------------------------
(* Expression constructors (mathics.core.expression) *)

Symbol(n) == [k |-> "Symbol", n |-> n]
String(n) == [k |-> "String", n |-> n]
Integer(v) == [k |-> "Integer", num |-> v, den |-> 1, exp |-> 0]
Rational(n, d) == [k |-> "Rational", num |-> n, den |-> d, exp |-> 0]
MachineReal(n, d, e) == [k |-> "MachineReal", num |-> n, den |-> d, exp |-> e]
PrecisionReal(n, d, e, p) ==
    [k |-> "PrecisionReal", num |-> n, den |-> d, exp |-> e, prec |-> p]
Complex(re, im) == [k |-> "Complex", real |-> re, imag |-> im]
Expression(head, leaves) == [k |-> "Expression", head |-> head, leaves |-> leaves]

\* a handler returning None: the evaluator leaves the call unevaluated
NoneValue == [k |-> "None"]
\* the evaluation was aborted because $RecursionLimit was exceeded
Aborted == [k |-> "Aborted"]
\* an uncaught Python exception left the handler
NameError == [k |-> "NameError"]

IsFailure(v) == v.k \in {"Aborted", "NameError"}

IsReal(e) == e.k \in {"MachineReal", "PrecisionReal"}
IsNumber(e) == e.k \in {"Integer", "Rational", "MachineReal", "PrecisionReal", "Complex"}
is_atom(e) == e.k # "Expression"

get_name(e) == IF e.k = "Symbol" THEN e.n ELSE ""

RECURSIVE get_lookup_name(_)
get_lookup_name(e) ==
    IF e.k = "Expression" THEN get_lookup_name(e.head) ELSE get_name(e)

get_head_name(e) ==
    IF e.k = "Expression" THEN get_name(e.head) ELSE e.k

\* the first failure met while the parts of a compound were evaluated, if any
RECURSIVE FirstFailure(_)
FirstFailure(s) ==
    IF s = <<>> THEN NoneValue
    ELSE IF IsFailure(Head(s)) THEN Head(s)
    ELSE FirstFailure(Tail(s))

Rebuild(head, leaves) ==
    LET f == FirstFailure(<<head>> \o leaves)
    IN IF f # NoneValue THEN f ELSE Expression(head, leaves)

----------------------------------------------------------------------------
(* mathics.core.numbers: precision in decimal digits <-> bits *)

\* log2(10) = 3.321928..., as the rational LogNum / LogDen
LogNum == 3321928
LogDen == 1000000

Max(a, b) == IF a >= b THEN a ELSE b
Min(a, b) == IF a <= b THEN a ELSE b

\* int(round(n / d)) for n, d > 0
RoundDiv(n, d) == (2 * n + d) \div (2 * d)

\* prec(dps) = max(1, int(round((int(dps) + 1) * C)))
prec(digits) == Max(1, RoundDiv((digits + 1) * LogNum, LogDen))

\* dps(prec) = max(1, int(round(int(prec) / C - 1)))
dps(bits) == Max(1, RoundDiv(bits * LogDen, LogNum) - 1)

----------------------------------------------------------------------------
(* Definitions store (mathics.core.definitions), read by the builtins *)

HeadSymbols == {"f"}
Symbols == {"a", "f"}

NHoldAttributes == {"NHoldAll", "NHoldFirst", "NHoldRest"}
Attributes == NHoldAttributes \cup {"NumericFunction"}

\* builtin attributes of the System symbols the model uses
BuiltinAttributes(name) ==
    IF name \in {"Plus", "Round"} THEN {"NumericFunction"} ELSE {}

get_attributes(name) ==
    IF name \in DOMAIN attributes THEN attributes[name] ELSE BuiltinAttributes(name)

\* One NValues rule of a symbol s.  lhs is the pattern:
\*   "sym"      N[s, p_]
\*   "call"     N[s[___], p_]
\*   "callreal" N[s[_Real, ___], p_]
\* rhs is the replacement: "value" (the integer 11), "self" (the request
\* N[expr, p] as it was matched) or "alias" (the symbol to).
NoRule == [lhs |-> "none", rhs |-> "none", to |-> ""]
Rule(l, r, t) == [lhs |-> l, rhs |-> r, to |-> t]

RuleOptions(s) ==
    IF s \in HeadSymbols
    THEN {NoRule, Rule("call", "value", ""), Rule("call", "self", ""),
          Rule("callreal", "value", ""), Rule("sym", "alias", "a")}
    ELSE {NoRule, Rule("sym", "value", ""), Rule("sym", "self", ""),
          Rule("sym", "alias", "f")}

RuleValue == Integer(11)

Matches(rule, name, expr) ==
    CASE rule.lhs = "sym" -> expr = Symbol(name)
      [] rule.lhs = "call" -> expr.k = "Expression" /\ expr.head = Symbol(name)
      [] rule.lhs = "callreal" ->
            /\ expr.k = "Expression" /\ expr.head = Symbol(name)
            /\ Len(expr.leaves) >= 1
            /\ expr.leaves[1].k \in {"MachineReal", "PrecisionReal"}
      [] OTHER -> FALSE

\* MachinePrecision.apply_N: get_precision is not defined in the module, so
\* the handler raises NameError as soon as it is entered
apply_N(precArg) == NameError

\* definitions.get_value(name, 'System`NValues', nexpr, evaluation)
get_value(name, nexpr) ==
    LET expr == nexpr.leaves[1] IN
    IF name = "MachinePrecision" /\ expr = Symbol("MachinePrecision")
    THEN apply_N(nexpr.leaves[2])
    ELSE IF name \notin DOMAIN nvalues THEN NoneValue
    ELSE LET rule == nvalues[name] IN
         IF ~Matches(rule, name, expr) THEN NoneValue
         ELSE CASE rule.rhs = "value" -> RuleValue
                [] rule.rhs = "self" -> nexpr
                [] rule.rhs = "alias" -> Symbol(rule.to)

----------------------------------------------------------------------------
(* N (numeric.py, class N) *)

PrecisionArgs == {Symbol("MachinePrecision"), Integer(20), Integer(30), String("abc")}

\* a Python float: the rational num/den scaled by 10^exp
Float(n, d, e) == [k |-> "float", num |-> n, den |-> d, exp |-> e]

\* get_float_value(): the float of a real number, None for anything else
get_float_value(e) ==
    IF e.k \in {"Integer", "Rational", "MachineReal", "PrecisionReal"}
    THEN Float(e.num, e.den, e.exp)
    ELSE NoneValue

\* a precision in digits as the integer the model's precisions are
Digits(d) == d.num \div d.den

\* Number.round(d): the number at d decimal digits (d = None: a machine real)
RECURSIVE round_number(_, _)
round_number(x, d) ==
    CASE x.k = "MachineReal" -> x
      [] x.k = "Complex" ->
            Complex(round_number(x.real, d), round_number(x.imag, d))
      [] x.k = "PrecisionReal" ->
            IF d = NoneValue THEN MachineReal(x.num, x.den, x.exp)
            ELSE PrecisionReal(x.num, x.den, x.exp, prec(Min(dps(x.prec), Digits(d))))
      [] OTHER ->
            IF d = NoneValue THEN MachineReal(x.num, x.den, x.exp)
            ELSE PrecisionReal(x.num, x.den, x.exp, prec(Digits(d)))

\* eval_range with NHoldFirst holding the last argument instead of the first
eval_range_holds_last(attrs, n) ==
    IF "NHoldAll" \in attrs THEN {}
    ELSE IF "NHoldFirst" \in attrs THEN 1..(n - 1)
    ELSE IF "NHoldRest" \in attrs THEN (IF n > 0 THEN {1} ELSE {})
    ELSE 1..n

\* the argument positions (1-based) N descends into, from the head's attributes
eval_range(attrs, n) ==
    IF "NHoldAll" \in attrs THEN {}
    ELSE IF "NHoldFirst" \in attrs THEN 2..n
    ELSE IF "NHoldRest" \in attrs THEN (IF n > 0 THEN {1} ELSE {})
    ELSE 1..n

\* Expression.get_attributes of a head: a symbol's attributes, none otherwise
head_attributes(head) ==
    IF head.k = "Symbol" THEN get_attributes(head.n) ELSE {}

NRequest(expr, precArg) == Expression(Symbol("N"), <<expr, precArg>>)

\* the override lookup of N.apply_other: the value of the matching NValues
\* rule of expr's lookup name, None without one
Override(expr, precArg) ==
    LET name == get_lookup_name(expr)
    IN IF name # "" THEN get_value(name, NRequest(expr, precArg)) ELSE NoneValue

RECURSIVE apply_other(_, _, _), evaluate(_, _)

\* the last branch of N.apply_other: the head and the arguments the head's
\* attributes select are replaced by their evaluated requests
Descend(expr, precArg, depth) ==
    LET range == eval_range(head_attributes(expr.head), Len(expr.leaves))
        head == evaluate(NRequest(expr.head, precArg), depth)
        leaves == [i \in DOMAIN expr.leaves |->
                      IF i \in range
                      THEN evaluate(NRequest(expr.leaves[i], precArg), depth)
                      ELSE expr.leaves[i]]
    IN Rebuild(head, leaves)

ValidPrecision(precArg) ==
    get_name(precArg) = "MachinePrecision" \/ get_float_value(precArg) # NoneValue

\* apply_other with the comparison of the override's value and the request
\* left out: every override value is numericized again
apply_other_always_recurses(expr, precArg, depth) ==
    LET d == IF get_name(precArg) = "MachinePrecision" THEN NoneValue
             ELSE get_float_value(precArg)
    IN
    IF ~ValidPrecision(precArg) THEN NoneValue
    ELSE IF get_head_name(expr) \in {"List", "Rule"}
    THEN Rebuild(expr.head,
                 [i \in DOMAIN expr.leaves |->
                     apply_other(expr.leaves[i], precArg, depth)])
    ELSE IF expr.k = "MachineReal" THEN expr
    ELSE IF IsNumber(expr) THEN round_number(expr, d)
    ELSE LET found == Override(expr, precArg)
         IN
         IF found # NoneValue
         THEN IF IsFailure(found) THEN found
              ELSE evaluate(NRequest(found, precArg), depth)
         ELSE IF is_atom(expr) THEN expr
         ELSE Descend(expr, precArg, depth)

\* N.apply_other(expr, prec, evaluation), entered at recursion depth depth
apply_other(expr, precArg, depth) ==
    LET d == IF get_name(precArg) = "MachinePrecision" THEN NoneValue
             ELSE get_float_value(precArg)
    IN
    IF ~ValidPrecision(precArg)
    THEN NoneValue      \* message N::precbd
    ELSE IF get_head_name(expr) \in {"List", "Rule"}
    THEN Rebuild(expr.head,
                 [i \in DOMAIN expr.leaves |->
                     apply_other(expr.leaves[i], precArg, depth)])
    ELSE IF expr.k = "MachineReal" THEN expr
    ELSE IF IsNumber(expr) THEN round_number(expr, d)
    ELSE LET nexpr == NRequest(expr, precArg)
             found == Override(expr, precArg)
         IN
         IF found # NoneValue
         THEN IF IsFailure(found) THEN found
              ELSE IF found # nexpr
              THEN evaluate(NRequest(found, precArg), depth)
              ELSE found
         ELSE IF is_atom(expr) THEN expr
         ELSE Descend(expr, precArg, depth)

\* Expression.evaluate of a request N[expr, prec] made at recursion depth
\* depth: the rule N[expr_, prec_] is applied; a None leaves it unevaluated
evaluate(request, depth) ==
    IF depth + 1 > MaxRecursionDepth THEN Aborted
    ELSE LET r == apply_other(request.leaves[1], request.leaves[2], depth + 1)
         IN IF r = NoneValue THEN request ELSE r

N_messages(precArg) ==
    IF ~ValidPrecision(precArg) THEN <<"precbd">> ELSE <<>>

----------------------------------------------------------------------------
(* Exact rational arithmetic, standing for sympy's numbers *)

Abs(x) == IF x < 0 THEN -x ELSE x

RECURSIVE GCD(_, _)
GCD(a, b) == IF b = 0 THEN a ELSE GCD(b, a % b)

RECURSIVE Pow10(_)
Pow10(n) == IF n <= 0 THEN 1 ELSE 10 * Pow10(n - 1)

\* the rational n/d in lowest terms with a positive denominator
Q(n, d) ==
    LET g == GCD(Abs(n), Abs(d))
        sgn == IF d < 0 THEN -1 ELSE 1
    IN [num |-> (sgn * n) \div g, den |-> (sgn * d) \div g]

QAdd(a, b) == Q(a.num * b.den + b.num * a.den, a.den * b.den)
QMul(a, b) == Q(a.num * b.num, a.den * b.den)
QDiv(a, b) == Q(a.num * b.den, a.den * b.num)
QInt(n) == Q(n, 1)

\* the value of a real number record: num/den * 10^exp.  A zero with a
\* negative denominator stands for the float -0.0.
ValueOf(x) ==
    IF x.num = 0 THEN Q(0, 1)
    ELSE IF x.exp >= 0 THEN Q(x.num * Pow10(x.exp), x.den)
    ELSE Q(x.num, x.den * Pow10(-x.exp))

\* a < b for floats, compared at their common decimal exponent
FloatLess(a, b) ==
    LET m == Min(a.exp, b.exp)
        an == IF a.num = 0 THEN 0 ELSE a.num * Pow10(a.exp - m)
        bn == IF b.num = 0 THEN 0 ELSE b.num * Pow10(b.exp - m)
    IN an * Abs(b.den) < bn * Abs(a.den)

FloatNeg(a) == [a EXCEPT !.num = -a.num]

\* machine_precision: the bits of a machine real
machine_precision == 53

\* A sympy number re + im*I.  rex / imx tell whether the part is exact
\* (Integer, Rational) or a Float; bits is the precision of the Float parts.
SymNum(re, rex, im, imx, bits) ==
    [re |-> re, rex |-> rex, im |-> im, imx |-> imx, bits |-> bits]

is_inexact_atom(x) == x.k \in {"MachineReal", "PrecisionReal"}

BitsOf(x) ==
    CASE x.k = "MachineReal" -> machine_precision
      [] x.k = "PrecisionReal" -> x.prec
      [] OTHER -> 0

\* to_sympy() of a number
to_sympy(x) ==
    IF x.k = "Complex"
    THEN SymNum(ValueOf(x.real), ~is_inexact_atom(x.real),
                ValueOf(x.imag), ~is_inexact_atom(x.imag),
                Max(BitsOf(x.real), BitsOf(x.imag)))
    ELSE SymNum(ValueOf(x), ~is_inexact_atom(x), Q(0, 1), TRUE, BitsOf(x))

\* from_sympy() of one real part
PartFromSympy(q, exact, bits) ==
    IF exact
    THEN (IF q.den = 1 THEN Integer(q.num) ELSE Rational(q.num, q.den))
    ELSE IF bits = machine_precision THEN MachineReal(q.num, q.den, 0)
    ELSE PrecisionReal(q.num, q.den, 0, bits)

\* from_sympy() of a number
from_sympy(v) ==
    IF v.imx /\ v.im.num = 0
    THEN PartFromSympy(v.re, v.rex, v.bits)
    ELSE Complex(PartFromSympy(v.re, v.rex, v.bits),
                 PartFromSympy(v.im, v.imx, v.bits))

----------------------------------------------------------------------------
(* Precision (numeric.py, class Precision) *)

\* MachineNumberQ: a machine real, or a complex number of machine reals
MachineNumberQ(z) ==
    \/ z.k = "MachineReal"
    \/ z.k = "Complex" /\ z.real.k = "MachineReal" /\ z.imag.k = "MachineReal"

\* is_inexact(): the number carries a precision
is_inexact(z) ==
    \/ is_inexact_atom(z)
    \/ z.k = "Complex" /\ (is_inexact_atom(z.real) \/ is_inexact_atom(z.imag))

\* get_precision(): the precision in bits of an inexact number
get_precision(z) ==
    IF z.k = "Complex"
    THEN (IF is_inexact_atom(z.real) /\ is_inexact_atom(z.imag)
          THEN Min(BitsOf(z.real), BitsOf(z.imag))
          ELSE Max(BitsOf(z.real), BitsOf(z.imag)))
    ELSE BitsOf(z)

\* z.to_sympy().is_zero
is_zero(z) ==
    IF z.k = "Complex" THEN z.real.num = 0 /\ z.imag.num = 0 ELSE z.num = 0

\* Real(n) of a Python integer n
RealOfInt(n) == MachineReal(n, 1, 0)

\* Precision.apply without the rule for machine numbers ahead of it
Precision_without_machine_rule(z) ==
    IF ~is_inexact(z) THEN Symbol("Infinity")
    ELSE IF is_zero(z) THEN RealOfInt(0)
    ELSE RealOfInt(dps(get_precision(z)))

\* Precision[z]: the rule Precision[z_?MachineNumberQ] -> MachinePrecision,
\* then Precision.apply
Precision(z) ==
    IF MachineNumberQ(z) THEN Symbol("MachinePrecision")
    ELSE IF ~is_inexact(z) THEN Symbol("Infinity")
    ELSE IF is_zero(z) THEN RealOfInt(0)
    ELSE RealOfInt(dps(get_precision(z)))

----------------------------------------------------------------------------
(* Round (numeric.py, round and class Round) *)

\* sympy.Integer(n + 0.5) for n >= 0, sympy.Integer(n - 0.5) for n < 0:
\* the float is truncated towards zero
HalfRound(n) ==
    IF n.num >= 0
    THEN (2 * n.num + n.den) \div (2 * n.den)
    ELSE -((-2 * n.num + n.den) \div (2 * n.den))

\* Re(value / k) and Im(value / k)
QuotientRe(value, k) ==
    QDiv(QAdd(QMul(value.re, k.re), QMul(value.im, k.im)),
         QAdd(QMul(k.re, k.re), QMul(k.im, k.im)))
QuotientIm(value, k) ==
    QDiv(QAdd(QMul(value.im, k.re), QMul(QInt(-1), QMul(value.re, k.im))),
         QAdd(QMul(k.re, k.re), QMul(k.im, k.im)))

\* n * k for a sympy Integer n: the integer 0 when n is 0, else each part of
\* k multiplied, exact where k is exact
Scale(n, k) ==
    IF n = 0 THEN SymNum(Q(0, 1), TRUE, Q(0, 1), TRUE, 0)
    ELSE SymNum(QMul(QInt(n), k.re), k.rex,
                QMul(QInt(n), k.im), k.imx \/ k.im.num = 0, k.bits)

\* round with both parts of the quotient rounded
round_both_parts(value, k) ==
    LET a == HalfRound(QuotientRe(value, k))
        b == HalfRound(QuotientIm(value, k))
    IN IF a = 0 /\ b = 0 THEN SymNum(Q(0, 1), TRUE, Q(0, 1), TRUE, 0)
       ELSE SymNum(QAdd(QMul(QInt(a), k.re), QMul(QInt(-b), k.im)),
                   k.rex /\ k.imx,
                   QAdd(QMul(QInt(a), k.im), QMul(QInt(b), k.re)),
                   k.rex /\ k.imx, k.bits)

\* round(value, k)
round(value, k) ==
    LET n == HalfRound(QuotientRe(value, k))
    IN Scale(n, k)

\* a number whose Round result is inexact whenever an operand is
Round_apply_contagious(expr, k) ==
    LET v == round(to_sympy(expr), to_sympy(k))
    IN from_sympy(IF is_inexact(expr) /\ v.re.num # 0
                  THEN [v EXCEPT !.rex = FALSE,
                                 !.bits = Max(get_precision(expr), v.bits)]
                  ELSE v)

\* Round.apply(expr, k): 'Round[expr_?NumericQ, k_?NumericQ]'
Round_apply(expr, k) ==
    from_sympy(round(to_sympy(expr), to_sympy(k)))

Re(x) == IF x.k = "Complex" THEN x.real ELSE x
Im(x) == IF x.k = "Complex" THEN x.imag ELSE Integer(0)

\* the rule 'Round[expr_?NumericQ]': 'Round[Re[expr], 1] + I * Round[Im[expr], 1]'
Round_rule(expr) ==
    LET re == to_sympy(Round_apply(Re(expr), Integer(1)))
        im == to_sympy(Round_apply(Im(expr), Integer(1)))
    IN from_sympy(SymNum(re.re, re.rex, im.re, im.rex, Max(re.bits, im.bits)))

----------------------------------------------------------------------------
(* Chop (numeric.py, chop and class Chop) *)

\* the default tolerance 10.0 ** (-10.0) of chop
DefaultDelta == Float(1, 1, -10)

\* -delta < v < delta
Within(v, delta) == FloatLess(FloatNeg(delta), v) /\ FloatLess(v, delta)

\* x.to_python() of a real number or of a part of a complex number
to_python(x) == Float(x.num, x.den, x.exp)

\* chop(expr, delta): the recursive calls do not pass delta on, so the head
\* and the leaves are chopped with the default tolerance
RECURSIVE chop(_, _)
chop(expr, delta) ==
    IF IsReal(expr)
    THEN (IF Within(to_python(expr), delta) THEN Integer(0) ELSE expr)
    ELSE IF expr.k = "Complex"
    THEN Complex(IF Within(to_python(expr.real), delta) THEN Integer(0) ELSE expr.real,
                 IF Within(to_python(expr.imag), delta) THEN Integer(0) ELSE expr.imag)
    ELSE IF expr.k = "Expression"
    THEN Expression(chop(expr.head, DefaultDelta),
                    [i \in DOMAIN expr.leaves |-> chop(expr.leaves[i], DefaultDelta)])
    ELSE expr

\* the tolerance Chop.apply accepts: a float that is not negative
ValidDelta(deltaArg) ==
    /\ get_float_value(deltaArg) # NoneValue
    /\ ~FloatLess(get_float_value(deltaArg), Float(0, 1, 0))

\* Chop.apply(expr, delta, evaluation)
Chop_apply(expr, deltaArg) ==
    IF ~ValidDelta(deltaArg) THEN NoneValue      \* message Chop::tolnn
    ELSE chop(expr, get_float_value(deltaArg))

Chop_messages(deltaArg) == IF ~ValidDelta(deltaArg) THEN <<"tolnn">> ELSE <<>>

\* the rule 'Chop[expr_]': 'Chop[expr, 10^-10]': the exact rational 10^-10
DefaultDeltaArg == [k |-> "Rational", num |-> 1, den |-> 1, exp |-> -10]

----------------------------------------------------------------------------
(* NumericQ (numeric.py, class NumericQ) *)

\* is_numeric() of an atom: a number, or a constant such as Pi
is_numeric(x) == IsNumber(x) \/ x = Symbol("Pi")

\* test with any in the place of all
RECURSIVE test_any_leaf(_)
test_any_leaf(expr) ==
    IF expr.k = "Expression"
    THEN /\ "NumericFunction" \in get_attributes(get_name(expr.head))
         /\ \E i \in DOMAIN expr.leaves : test_any_leaf(expr.leaves[i])
    ELSE is_numeric(expr)

\* test(expr) of NumericQ.apply
RECURSIVE test(_)
test(expr) ==
    IF expr.k = "Expression"
    THEN /\ "NumericFunction" \in get_attributes(get_name(expr.head))
         /\ \A i \in DOMAIN expr.leaves : test(expr.leaves[i])
    ELSE is_numeric(expr)

\* NumericQ.apply(expr, evaluation)
NumericQ_apply(expr) == IF test(expr) THEN Symbol("True") ELSE Symbol("False")

----------------------------------------------------------------------------
(* Hash (numeric.py, class Hash) *)

\* the keys of Hash._supported_hashes
supported_hashes ==
    {"Adler32", "CRC32", "MD5", "SHA", "SHA224", "SHA256", "SHA384", "SHA512"}

\* expr.user_hash(update): the bytes of the expression's canonical encoding,
\* here one small number for each tag, name and digit
RECURSIVE Sum(_)
Sum(s) == IF s = <<>> THEN 0 ELSE Head(s) + Sum(Tail(s))

RECURSIVE Flatten(_)
Flatten(ss) == IF ss = <<>> THEN <<>> ELSE Head(ss) \o Flatten(Tail(ss))

NameCode(n) ==
    CASE n = "a" -> 97 [] n = "b" -> 98 [] n = "c" -> 99
      [] n = "f" -> 102 [] n = "List" -> 76 [] OTHER -> 63

RECURSIVE user_hash(_)
user_hash(expr) ==
    CASE expr.k = "Expression" ->
            <<1>> \o user_hash(expr.head)
                  \o Flatten([i \in DOMAIN expr.leaves |-> user_hash(expr.leaves[i])])
      [] expr.k = "Symbol" -> <<2, NameCode(expr.n)>>
      [] expr.k = "String" -> <<3, NameCode(expr.n)>>
      [] expr.k = "Integer" -> <<4, Abs(expr.num) % 256>>
      [] OTHER -> <<5, Abs(expr.num) % 256, Abs(expr.den) % 256>>

\* the modulus of Adler-32
AdlerModulus == 65521

\* int(h.hexdigest(), 16): every digest is abstracted by an Adler-32 style
\* checksum of the bytes, offset by the length of the algorithm's name
RECURSIVE AdlerA(_), AdlerB(_)
AdlerA(bytes) ==
    IF bytes = <<>> THEN 1
    ELSE (AdlerA(SubSeq(bytes, 1, Len(bytes) - 1)) + bytes[Len(bytes)]) % AdlerModulus
AdlerB(bytes) ==
    IF bytes = <<>> THEN 0
    ELSE (AdlerB(SubSeq(bytes, 1, Len(bytes) - 1)) + AdlerA(bytes)) % AdlerModulus

AlgCode(alg) ==
    CASE alg = "Adler32" -> 0 [] alg = "CRC32" -> 1 [] alg = "MD5" -> 2
      [] alg = "SHA" -> 3 [] alg = "SHA224" -> 4 [] alg = "SHA256" -> 5
      [] alg = "SHA384" -> 6 [] OTHER -> 7

hexdigest(alg, bytes) ==
    ((AdlerB(bytes) * 256) + (AdlerA(bytes) % 256)) * 8 + AlgCode(alg)

\* Hash.compute falling back to MD5 for a name it does not know
compute_defaulting(expr, py_hashtype) ==
    IF py_hashtype \notin supported_hashes
    THEN [value |-> Integer(hexdigest("MD5", user_hash(expr))), fed |-> TRUE]
    ELSE [value |-> Integer(hexdigest(py_hashtype, user_hash(expr))), fed |-> TRUE]

\* Hash.compute(user_hash, py_hashtype): the value returned, and whether the
\* hash object was fed the expression's bytes
compute(expr, py_hashtype) ==
    IF py_hashtype \notin supported_hashes
    THEN [value |-> NoneValue, fed |-> FALSE]
    ELSE [value |-> Integer(hexdigest(py_hashtype, user_hash(expr))), fed |-> TRUE]

\* Hash.apply(expr, hashtype, evaluation): 'Hash[expr_, hashtype_String]'
Hash_apply(expr, hashtype) ==
    IF hashtype.k # "String" THEN [value |-> NoneValue, fed |-> FALSE]
    ELSE compute(expr, hashtype.n)

----------------------------------------------------------------------------
(* Input universe of the N calls *)

NAtoms == {Symbol("a"), Integer(2), MachineReal(3, 2, 0)}
NHeads == {Symbol("f"), Symbol("List")}

LeafSeqs(S, n) == UNION {[1..m -> S] : m \in 0..n}

NLevel1 == {Expression(h, s) : h \in NHeads, s \in LeafSeqs(NAtoms, MaxLeaves)}
NLevel2 == {Expression(h, <<c>>) :
               h \in NHeads, c \in {x \in NLevel1 : Len(x.leaves) <= 1}}
NExprs == NAtoms \cup NLevel1 \cup NLevel2

Idle == [op |-> "idle", expr |-> NoneValue, arg |-> NoneValue]

----------------------------------------------------------------------------
(* Actions *)

Init ==
    /\ attributes = [s \in HeadSymbols |-> {}]
    /\ nvalues = [s \in Symbols |-> NoRule]
    /\ call = Idle
    /\ result = NoneValue
    /\ prior = NoneValue
    /\ messages = <<>>
    /\ fed = FALSE

Reset ==
    /\ call' = Idle
    /\ result' = NoneValue
    /\ prior' = NoneValue
    /\ messages' = <<>>
    /\ fed' = FALSE

\* SetAttributes[s, attr]
SetAttributes ==
    \E s \in HeadSymbols, attr \in Attributes :
        /\ call.op = "idle"
        /\ attr \notin attributes[s]
        /\ attributes' = [attributes EXCEPT ![s] = @ \cup {attr}]
        /\ UNCHANGED nvalues
        /\ Reset

\* an assignment to N[...] (or its removal) rewrites the NValues of s
SetNValues ==
    \E s \in Symbols : \E r \in RuleOptions(s) :
        /\ call.op = "idle"
        /\ r # nvalues[s]
        /\ nvalues' = [nvalues EXCEPT ![s] = r]
        /\ UNCHANGED attributes
        /\ Reset

\* N[expr, prec].  No handler reads what an earlier call left behind, so
\* every call is explored from the idle state.
CallN ==
    \E expr \in NExprs, precArg \in PrecisionArgs :
        /\ call.op = "idle"
        /\ call' = [op |-> "N", expr |-> expr, arg |-> precArg]
        /\ result' = apply_other(expr, precArg, 1)
        /\ messages' = N_messages(precArg)
        /\ prior' = NoneValue
        /\ fed' = FALSE
        /\ UNCHANGED <<attributes, nvalues>>

\* N[%, prec]: the previous result is numericized again at the same precision
CallNAgain ==
    /\ call.op = "N"
    /\ result # NoneValue
    /\ ~IsFailure(result)
    /\ call' = [call EXCEPT !.op = "NN"]
    /\ prior' = result
    /\ result' = apply_other(result, call.arg, 1)
    /\ messages' = N_messages(call.arg)
    /\ fed' = FALSE
    /\ UNCHANGED <<attributes, nvalues>>

\* the result has been shown; the session reads its next input
Return ==
    /\ call.op # "idle"
    /\ Reset
    /\ UNCHANGED <<attributes, nvalues>>

Next == SetAttributes \/ SetNValues \/ CallN \/ CallNAgain \/ Return

Spec == Init /\ [][Next]_vars

----------------------------------------------------------------------------
(* Input universes of the other builtins *)

PrecisionDigits == {17, 20, 30, 36}

PrecisionInputs ==
    {Integer(1), Integer(0), Rational(1, 2), String("abc"), Symbol("a"),
     MachineReal(1, 2, 0), MachineReal(0, 1, 0), MachineReal(0, -1, 0),
     Complex(MachineReal(2, 5, 0), MachineReal(12, 5, 0)),
     Complex(Integer(2), Integer(3))}
    \cup {PrecisionReal(v[1], v[2], 0, prec(n)) :
             v \in {<<0, 1>>, <<0, -1>>, <<1, 9>>, <<-3, 2>>}, n \in PrecisionDigits}

RoundXs ==
    {Integer(10), Integer(-3), Integer(1), Rational(5, 2), Rational(-1, 4),
     MachineReal(53, 5, 0), MachineReal(13, 5, 0), MachineReal(3, 50, 0),
     MachineReal(1, 25, 0), MachineReal(-7, 5, 0), MachineReal(-5, 2, 0),
     PrecisionReal(13, 5, 0, prec(20)),
     Complex(Integer(1), Integer(2)), Complex(Integer(3), Integer(-1)),
     Complex(MachineReal(5, 2, 0), MachineReal(1, 2, 0)),
     Symbol("a")}

RoundKs ==
    {NoneValue, Integer(1), Integer(2), Rational(1, 3),
     MachineReal(1, 10, 0), MachineReal(1, 2, 0), PrecisionReal(1, 2, 0, prec(20)),
     Complex(Integer(0), Integer(2)), Complex(Integer(1), Integer(1)),
     Complex(MachineReal(1, 2, 0), MachineReal(1, 1, 0)),
     Symbol("a")}

ChopAtoms ==
    {MachineReal(5, 1, -11), MachineReal(1, 1, -10), MachineReal(-5, 1, -10),
     MachineReal(1, 1, -9), MachineReal(5, 1, -9), Symbol("a"),
     Complex(MachineReal(5, 1, -10), MachineReal(5, 1, -9))}

ChopLevel1 == {Expression(h, s) : h \in NHeads, s \in LeafSeqs(ChopAtoms, MaxLeaves)}
ChopLevel2 ==
    LET inner == {x \in ChopLevel1 : Len(x.leaves) = 1}
    IN {Expression(h, <<c>>) : h \in NHeads, c \in inner}
       \cup {Expression(c, <<>>) : c \in inner}
ChopExprs == ChopAtoms \cup ChopLevel1 \cup ChopLevel2

ChopDeltas ==
    {NoneValue, MachineReal(0, 1, 0), MachineReal(1, 1, -10), MachineReal(1, 1, -9),
     MachineReal(-1, 1, -9), Symbol("a")}

QAtoms == {Integer(1), MachineReal(3, 2, 0), Symbol("Pi"), Symbol("a"), String("abc")}
QHeads == {Symbol("f"), Symbol("Plus")}
QLevel1 == {Expression(h, s) : h \in QHeads, s \in LeafSeqs(QAtoms, MaxLeaves)}
QLevel2 ==
    LET inner == {x \in QLevel1 : Len(x.leaves) = 1}
    IN {Expression(h, <<c>>) : h \in QHeads, c \in inner}
       \cup {Expression(h, <<Integer(1), c>>) : h \in QHeads, c \in inner}
       \cup {Expression(Symbol("Plus"), <<Expression(Symbol("Plus"), <<c>>)>>) : c \in inner}
       \cup {Expression(c, <<Integer(1)>>) : c \in inner}
QExprs == QAtoms \cup QLevel1 \cup QLevel2

HashExprs ==
    {Symbol("a"), String("abc"), Integer(1), Rational(1, 3),
     Expression(Symbol("List"), <<Symbol("a"), Symbol("b"), Symbol("c")>>),
     Expression(Symbol("f"), <<MachineReal(3, 2, 0)>>)}

HashTypes ==
    {String(n) : n \in supported_hashes \cup {"xyzstr", "md5"}}
    \cup {NoneValue, Symbol("MD5")}

----------------------------------------------------------------------------
(* Actions of the other builtins *)

\* Precision[z]
CallPrecision ==
    \E z \in PrecisionInputs :
        /\ call.op = "idle"
        /\ call' = [op |-> "Precision", expr |-> z, arg |-> NoneValue]
        /\ result' = Precision(z)
        /\ messages' = <<>>
        /\ UNCHANGED <<attributes, nvalues, prior, fed>>

\* Round[x] and Round[x, k]
CallRound ==
    \E x \in RoundXs, k \in RoundKs :
        /\ call.op = "idle"
        /\ call' = [op |-> "Round", expr |-> x, arg |-> k]
        /\ result' = IF k = NoneValue
                     THEN (IF test(x) THEN Round_rule(x) ELSE NoneValue)
                     ELSE IF test(x) /\ test(k) THEN Round_apply(x, k)
                     ELSE NoneValue
        /\ messages' = <<>>
        /\ UNCHANGED <<attributes, nvalues, prior, fed>>

\* Chop[expr] and Chop[expr, delta]
CallChop ==
    \E expr \in ChopExprs, deltaArg \in ChopDeltas :
        LET delta == IF deltaArg = NoneValue THEN DefaultDeltaArg ELSE deltaArg IN
        /\ call.op = "idle"
        /\ call' = [op |-> "Chop", expr |-> expr, arg |-> deltaArg]
        /\ result' = Chop_apply(expr, delta)
        /\ messages' = Chop_messages(delta)
        /\ UNCHANGED <<attributes, nvalues, prior, fed>>

\* Hash[expr] and Hash[expr, type]
CallHash ==
    \E expr \in HashExprs, hashtype \in HashTypes :
        LET h == Hash_apply(expr, IF hashtype = NoneValue THEN String("MD5") ELSE hashtype) IN
        /\ call.op = "idle"
        /\ call' = [op |-> "Hash", expr |-> expr, arg |-> hashtype]
        /\ result' = h.value
        /\ fed' = h.fed
        /\ messages' = <<>>
        /\ UNCHANGED <<attributes, nvalues, prior>>

NextBuiltins == CallPrecision \/ CallRound \/ CallChop \/ CallHash \/ Return

SpecBuiltins == Init /\ [][NextBuiltins]_vars

\* NumericQ[expr]
CallNumericQ ==
    \E expr \in QExprs :
        /\ call.op = "idle"
        /\ call' = [op |-> "NumericQ", expr |-> expr, arg |-> NoneValue]
        /\ result' = NumericQ_apply(expr)
        /\ messages' = <<>>
        /\ UNCHANGED <<attributes, nvalues, prior, fed>>

NextNumericQ == SetAttributes \/ CallNumericQ \/ Return

SpecNumericQ == Init /\ [][NextNumericQ]_vars

----------------------------------------------------------------------------
(* Claims about N *)

NCall == call.op = "N" /\ ValidPrecision(call.arg)

\* the positions of a compound the hold attributes of its head leave to N:
\* NHoldAll none, NHoldFirst all but the first, NHoldRest the first only
Converted(attrs, i) ==
    CASE "NHoldAll" \in attrs -> FALSE
      [] "NHoldFirst" \in attrs -> i # 1
      [] "NHoldRest" \in attrs -> i = 1
      [] OTHER -> TRUE

NoOverrideCompound ==
    /\ NCall
    /\ call.expr.k = "Expression"
    /\ Override(call.expr, call.arg) = NoneValue
    /\ ~IsFailure(result)

\* C1: for a compound expression without a matching override rule, N replaces
\* exactly the argument positions the head's NHold attributes select by the
\* evaluated request N[ai, p], leaves every other argument identical to the
\* input, and replaces the head by the evaluated N[f, p].
C1_HoldAttributesSelectPositions ==
    NoOverrideCompound =>
        /\ result.k = "Expression"
        /\ result.head = evaluate(NRequest(call.expr.head, call.arg), 1)
        /\ Len(result.leaves) = Len(call.expr.leaves)
        /\ \A i \in DOMAIN call.expr.leaves :
              result.leaves[i] =
                 IF Converted(head_attributes(call.expr.head), i)
                 THEN evaluate(NRequest(call.expr.leaves[i], call.arg), 1)
                 ELSE call.expr.leaves[i]

C1_Witness ==
    /\ NoOverrideCompound
    /\ attributes["f"] \cap NHoldAttributes = {"NHoldFirst", "NHoldRest"}
    /\ call.expr = Expression(Symbol("f"), <<Integer(2), Integer(2)>>)
    /\ result.leaves[1] = Integer(2)
    /\ result.leaves[2] # Integer(2)

IdenticalOverride ==
    NCall /\ Override(call.expr, call.arg) = NRequest(call.expr, call.arg)

\* C2: an override whose value is identical to the request N[expr, p] counts
\* as no override: an atom is returned unchanged, a compound is descended into.
C2_IdenticalOverrideIsNoOverride ==
    IdenticalOverride =>
        result = IF is_atom(call.expr) THEN call.expr
                 ELSE Descend(call.expr, call.arg, 1)

\* C3: numericizing the result of N again at the same precision changes nothing.
C3_Idempotent ==
    (call.op = "NN" /\ ~IsFailure(result)) => result = prior

NoAliasRules == \A s \in Symbols : nvalues[s].rhs # "alias"

\* C10: N terminates when the override rules in force are self-referential
\* (value identical to the request), values or absent: the recursion limit is
\* never reached, and a request whose override is identical to it is returned
\* as it is, without a further request.
C10_SelfReferenceTerminates ==
    /\ (call.op \in {"N", "NN"} /\ NoAliasRules) => result # Aborted
    /\ IdenticalOverride => result = NRequest(call.expr, call.arg)

C10_Witness ==
    /\ IdenticalOverride
    /\ nvalues["a"].rhs = "self"
    /\ call.expr = Symbol("a")
    /\ result = NRequest(Symbol("a"), call.arg)

\* the recursion limit is what stops rules that refer to each other
AbortReached == result = Aborted

----------------------------------------------------------------------------
(* Claims about Precision *)

Zero == RealOfInt(0)
Machine == Symbol("MachinePrecision")
Infinite == Symbol("Infinity")

PrecisionCall == call.op = "Precision"
IsRealZero(z) == is_inexact_atom(z) /\ z.num = 0

\* C4 as stated: every inexact zero, machine-width or arbitrary-precision, has
\* the precision Zero; exact values Infinite; a nonzero real of n digits n.
C4_EveryInexactZeroIsZero ==
    PrecisionCall =>
        /\ IsRealZero(call.expr) => result = Zero
        /\ ~is_inexact(call.expr) => result = Infinite
        /\ \A n \in PrecisionDigits :
              (call.expr.k = "PrecisionReal" /\ call.expr.num # 0
                  /\ call.expr.prec = prec(n)) => result = RealOfInt(n)

\* C4 (amended): an arbitrary-precision zero of either sign and of any number
\* of digits has the precision Zero (Real 0), distinct from Machine and from
\* every Digits(n); a machine-width zero has the precision Machine, like every
\* machine number; exact values have Infinite, and a nonzero arbitrary-precision
\* real of n digits has n.
C4_ArbitraryZeroIsZero ==
    PrecisionCall =>
        /\ (call.expr.k = "PrecisionReal" /\ call.expr.num = 0) =>
              /\ result = Zero
              /\ result # Machine
              /\ \A n \in PrecisionDigits : result # RealOfInt(n)
        /\ MachineNumberQ(call.expr) => result = Machine
        /\ ~is_inexact(call.expr) => result = Infinite
        /\ \A n \in PrecisionDigits :
              (call.expr.k = "PrecisionReal" /\ call.expr.num # 0
                  /\ call.expr.prec = prec(n)) => result = RealOfInt(n)

C4_Witness ==
    /\ PrecisionCall
    /\ call.expr = PrecisionReal(0, -1, 0, prec(36))
    /\ result = Zero

----------------------------------------------------------------------------
(* Claims about Round *)

IsRealNumber(x) == x.k \in {"Integer", "Rational", "MachineReal", "PrecisionReal"}
IsExact(x) == x.k \in {"Integer", "Rational"}

\* the step of a Round call: 1 when it was not given
StepOf(c) == IF c.arg = NoneValue THEN Integer(1) ELSE c.arg

RealRoundCall ==
    /\ call.op = "Round"
    /\ IsRealNumber(call.expr)
    /\ IsRealNumber(StepOf(call))

QAbs(q) == [q EXCEPT !.num = Abs(q.num)]
QLess(a, b) == a.num * b.den < b.num * a.den

ComplexStepCall ==
    /\ call.op = "Round"
    /\ IsNumber(call.expr)
    /\ call.arg # NoneValue
    /\ call.arg.k = "Complex"

\* n is the integer nearest to q, a half rounded away from zero
Nearest(q, n) ==
    LET dist == QAbs(QAdd(q, QInt(-n)))
    IN \/ QLess(QMul(QInt(2), dist), QInt(1))
       \/ QMul(QInt(2), dist) = QInt(1) /\ QLess(QAbs(q), QInt(Abs(n)))

RoundInts == -20..20

\* the value of the number r is (a + b*I) * k
IsMultiple(r, a, b, k) ==
    /\ to_sympy(r).re = QAdd(QMul(QInt(a), k.re), QMul(QInt(-b), k.im))
    /\ to_sympy(r).im = QAdd(QMul(QInt(a), k.im), QMul(QInt(b), k.re))

\* C9 as stated: for a complex step k the real and the imaginary part of the
\* quotient x / k are both rounded, and the result is their sum times k.
C9_BothPartsRounded ==
    ComplexStepCall =>
        \E a, b \in RoundInts :
            /\ Nearest(QuotientRe(to_sympy(call.expr), to_sympy(call.arg)), a)
            /\ Nearest(QuotientIm(to_sympy(call.expr), to_sympy(call.arg)), b)
            /\ IsMultiple(result, a, b, to_sympy(call.arg))

\* C9 (amended): for a complex step k only the real part of the quotient
\* x / k is rounded (a half away from zero) and the result is that integer
\* times k; the imaginary part of the quotient is discarded.
C9_RealPartOnly ==
    ComplexStepCall =>
        \E a \in RoundInts :
            /\ Nearest(QuotientRe(to_sympy(call.expr), to_sympy(call.arg)), a)
            /\ IsMultiple(result, a, 0, to_sympy(call.arg))

C9_Witness ==
    /\ ComplexStepCall
    /\ call.expr = Complex(Integer(1), Integer(2))
    /\ call.arg = Complex(Integer(0), Integer(2))
    /\ ~Nearest(QuotientIm(to_sympy(call.expr), to_sympy(call.arg)), 0)
    /\ result = Complex(Integer(0), Integer(2))

----------------------------------------------------------------------------
(* Claims about Chop *)

ChopCall == call.op = "Chop" /\ ValidDelta(StepOf(call))

\* the tolerance of a Chop call: the default when it was not given
DeltaOf(c) ==
    IF c.arg = NoneValue THEN get_float_value(DefaultDeltaArg)
    ELSE get_float_value(c.arg)

\* out is input with every real leaf inside (-delta, delta) replaced by the
\* integer 0 and every other real leaf kept, at every depth, heads included
RECURSIVE RealLeavesChopped(_, _, _)
RealLeavesChopped(input, out, delta) ==
    IF IsReal(input)
    THEN out = IF Within(to_python(input), delta) THEN Integer(0) ELSE input
    ELSE IF input.k = "Expression"
    THEN /\ out.k = "Expression"
         /\ Len(out.leaves) = Len(input.leaves)
         /\ RealLeavesChopped(input.head, out.head, delta)
         /\ \A i \in DOMAIN input.leaves :
               RealLeavesChopped(input.leaves[i], out.leaves[i], delta)
    ELSE TRUE

\* C6: Chop[expr, delta] applies the tolerance delta it was given to the real
\* leaves at every depth of expr.
C6_DeltaAtEveryDepth ==
    ChopCall => RealLeavesChopped(call.expr, result, DeltaOf(call))

\* the tolerance given is applied to a real number at the top level
ChopTopLevel ==
    /\ ChopCall
    /\ call.expr = MachineReal(-5, 1, -10)
    /\ call.arg = MachineReal(1, 1, -9)
    /\ result = Integer(0)

----------------------------------------------------------------------------
(* Claims about NumericQ *)

\* expr and the expressions below it, followed through the leaves
RECURSIVE Subterms(_)
Subterms(expr) ==
    IF expr.k = "Expression"
    THEN {expr} \cup UNION {Subterms(expr.leaves[i]) : i \in DOMAIN expr.leaves}
    ELSE {expr}

C7_DeepLeaf ==
    /\ call.op = "NumericQ"
    /\ "NumericFunction" \in attributes["f"]
    /\ call.expr = Expression(Symbol("f"),
                      <<Integer(1), Expression(Symbol("Plus"), <<Symbol("a")>>)>>)
    /\ result = Symbol("False")

----------------------------------------------------------------------------
(* Claims about Hash *)

HashCall == call.op = "Hash" /\ call.arg # NoneValue /\ call.arg.k = "String"

\* C8 as stated: an unsupported algorithm name is reported and the call is
\* left unevaluated, with no digest, no bytes hashed and no error; a
\* supported name gives a non-negative integer.
C8_UnknownIsReported ==
    HashCall =>
        IF call.arg.n \in supported_hashes
        THEN result.k = "Integer" /\ result.num >= 0
        ELSE /\ messages # <<>>
             /\ result = NoneValue
             /\ ~fed

\* C8 (amended): an unsupported algorithm name leaves the call unevaluated
\* without any message being sent: no digest is produced, the expression's
\* bytes are never fed to a hash object and no error is raised; a supported
\* name gives a non-negative integer.
C8_UnknownIsSilent ==
    HashCall =>
        IF call.arg.n \in supported_hashes
        THEN result.k = "Integer" /\ result.num >= 0 /\ fed
        ELSE /\ messages = <<>>
             /\ result = NoneValue
             /\ ~fed

C8_Witness ==
    /\ HashCall
    /\ call.arg = String("xyzstr")
    /\ call.expr = Expression(Symbol("List"), <<Symbol("a"), Symbol("b"), Symbol("c")>>)
    /\ result = NoneValue

====
